---- MODULE Spec2Model ----
(***************************************************************************)
(* Decoder configuration records of go-webdl/media-codec: the AVC, HEVC    *)
(* and Dolby Vision record codecs (RecordSize, RecordRead, RecordWrite)    *)
(* and the HEVC record builder, as a state machine over one record, one    *)
(* byte sink and one byte source.                                          *)
(***************************************************************************)
EXTENDS Integers, Sequences, FiniteSets, TLC

(***************************************************************************)
(* Fixed-width unsigned arithmetic of Go: uint8 and uint16 values are      *)
(* naturals below 2^8 and 2^16; shifts and conversions wrap.  A uint32 or  *)
(* uint64 field is the tuple of its 4 or 8 bytes, most significant first.  *)
(* Record sizes (uint32 in the code) are naturals: no record of the model  *)
(* comes near 2^32 bytes.                                                  *)
(***************************************************************************)
U8(x) == x % 256
U16(x) == x % 65536

\* x << k on a uint8
Shl8(x, k) == U8(x * (2 ^ k))
\* x << k on a uint16
Shl16(x, k) == U16(x * (2 ^ k))
\* x >> k
Shr(x, k) == x \div (2 ^ k)

RECURSIVE BitAnd(_, _)
\* a & b
BitAnd(a, b) ==
  IF a = 0 \/ b = 0 THEN 0
  ELSE (a % 2) * (b % 2) + 2 * BitAnd(a \div 2, b \div 2)

RECURSIVE BitOr(_, _)
\* a | b
BitOr(a, b) ==
  IF a = 0 THEN b
  ELSE IF b = 0 THEN a
  ELSE (IF a % 2 = 1 \/ b % 2 = 1 THEN 1 ELSE 0) + 2 * BitOr(a \div 2, b \div 2)

(***************************************************************************)
(* A []byte, and the content of a byte source or sink, is a sequence of    *)
(* runs [n |-> count, b |-> byte value] in canonical form: no empty run,   *)
(* no two adjacent runs of the same byte.  Two byte strings are equal iff  *)
(* their canonical forms are equal, so = on records compares content.      *)
(***************************************************************************)
Run(n, b) == [n |-> n, b |-> b]

RECURSIVE BLen(_)
\* len(s)
BLen(s) == IF s = <<>> THEN 0 ELSE s[1].n + BLen(Tail(s))

\* append(a, b...)
BCat(a, b) ==
  IF a = <<>> THEN b
  ELSE IF b = <<>> THEN a
  ELSE IF a[Len(a)].b = b[1].b
       THEN SubSeq(a, 1, Len(a) - 1)
              \o <<Run(a[Len(a)].n + b[1].n, b[1].b)>> \o Tail(b)
       ELSE a \o b

RECURSIVE BTake(_, _)
\* s[:k], or all of s when it is shorter
BTake(s, k) ==
  IF k <= 0 \/ s = <<>> THEN <<>>
  ELSE IF s[1].n >= k THEN <<Run(k, s[1].b)>>
  ELSE <<s[1]>> \o BTake(Tail(s), k - s[1].n)

RECURSIVE BDrop(_, _)
\* s[k:], or nothing when s is shorter
BDrop(s, k) ==
  IF k <= 0 \/ s = <<>> THEN s
  ELSE IF s[1].n > k THEN <<Run(s[1].n - k, s[1].b)>> \o Tail(s)
  ELSE BDrop(Tail(s), k - s[1].n)

RECURSIVE FromSeq(_)
\* the byte string holding the bytes q[1], q[2], ...
FromSeq(q) ==
  IF q = <<>> THEN <<>> ELSE BCat(<<Run(1, q[1])>>, FromSeq(Tail(q)))

RECURSIVE ToSeq(_)
\* the bytes of s, one element per byte
ToSeq(s) ==
  IF s = <<>> THEN <<>>
  ELSE [i \in 1..s[1].n |-> s[1].b] \o ToSeq(Tail(s))

\* make([]byte, n): n zero bytes
Zeros(n) == IF n = 0 THEN <<>> ELSE <<Run(n, 0)>>

\* binary.BigEndian encodings written by binary.Write
BE8(v) == FromSeq(<<U8(v)>>)
BE16(v) == FromSeq(<<U8(Shr(v, 8)), U8(v)>>)
\* a uint32 given as its 4 bytes
BE32(v) == FromSeq(v)
\* uint16(v >> 32) and uint32(v) of a uint64 given as its 8 bytes
Hi16of64(v) == SubSeq(v, 3, 4)
Lo32of64(v) == SubSeq(v, 5, 8)

RECURSIVE Flatten(_)
\* the bytes of a sequence of write calls, in order
Flatten(chunks) ==
  IF chunks = <<>> THEN <<>>
  ELSE IF Len(chunks) = 1 THEN chunks[1]
  ELSE LET h == Len(chunks) \div 2
       IN  BCat(Flatten(SubSeq(chunks, 1, h)),
                Flatten(SubSeq(chunks, h + 1, Len(chunks))))

RECURSIVE Concat(_)
\* the concatenation of a sequence of sequences
Concat(qs) ==
  IF qs = <<>> THEN <<>>
  ELSE IF Len(qs) = 1 THEN qs[1]
  ELSE LET h == Len(qs) \div 2
       IN  Concat(SubSeq(qs, 1, h)) \o Concat(SubSeq(qs, h + 1, Len(qs)))

RECURSIVE Sum(_)
\* the sum of a sequence of numbers
Sum(q) ==
  IF q = <<>> THEN 0
  ELSE IF Len(q) = 1 THEN q[1]
  ELSE LET h == Len(q) \div 2
       IN  Sum(SubSeq(q, 1, h)) + Sum(SubSeq(q, h + 1, Len(q)))

\* io.ReadFull / binary.Read of n bytes from a source holding s: the error
ReadErr(s, n) ==
  IF BLen(s) >= n THEN "nil"
  ELSE IF BLen(s) = 0 THEN "EOF" ELSE "ErrUnexpectedEOF"

\* the bytes gone from a source that held s when it is read through a
\* buffer that drains it
TakenAll(s, rest) == BLen(s)

\* the bytes binary.Read and io.ReadFull took from a source that held s and
\* now holds rest
Taken(s, rest) == BLen(s) - BLen(rest)

(***************************************************************************)
(* Dolby Vision decoder configuration record.                              *)
(***************************************************************************)
DOVISize == 24

ZeroDOVI ==
  [VersionMajor |-> 0, VersionMinor |-> 0, Profile |-> 0, Level |-> 0,
   RPUPresent |-> FALSE, ELPresent |-> FALSE, BLPresent |-> FALSE,
   BLSignalCompatibilityID |-> 0]

DOVIRecordSize(b) == DOVISize

\* tmp[2] of RecordWrite
DOVIWriteByte2(b) == BitOr(Shl8(b.Profile, 1), BitAnd(Shr(b.Level, 5), 1))

\* tmp[3] of RecordWrite
DOVIWriteByte3(b) ==
  LET l == BitAnd(Shl8(b.Level, 3), 248)
      r == IF b.RPUPresent THEN BitOr(l, 4) ELSE l
      e == IF b.ELPresent THEN BitOr(r, 2) ELSE r
  IN  IF b.BLPresent THEN BitOr(e, 1) ELSE e

\* The write calls of RecordWrite: one write of the 24-byte array.
DOVIRecordWrite(b) ==
  << BCat(FromSeq(<<b.VersionMajor, b.VersionMinor, DOVIWriteByte2(b),
                    DOVIWriteByte3(b), Shl8(b.BLSignalCompatibilityID, 4)>>),
          Zeros(DOVISize - 5)) >>

\* b.Level without the bit carried by byte 2
DOVIReadLevelLowBits(tmp) == Shr(BitAnd(tmp[4], 248), 3)

\* b.Level of RecordRead
DOVIReadLevel(tmp) ==
  BitOr(Shl8(BitAnd(tmp[3], 1), 5), Shr(BitAnd(tmp[4], 248), 3))

\* RecordRead on record b from a source holding s:
\* the record afterwards, the error and the number of bytes taken.
DOVIRecordRead(b, s) ==
  IF ReadErr(s, DOVISize) # "nil"
  THEN [b |-> b, err |-> ReadErr(s, DOVISize), n |-> BLen(s)]
  ELSE LET tmp == ToSeq(BTake(s, DOVISize))
       IN  [b |-> [VersionMajor |-> tmp[1],
                   VersionMinor |-> tmp[2],
                   Profile |-> Shr(tmp[3], 1),
                   Level |-> DOVIReadLevel(tmp),
                   RPUPresent |-> BitAnd(tmp[4], 4) > 0,
                   ELPresent |-> BitAnd(tmp[4], 2) > 0,
                   BLPresent |-> BitAnd(tmp[4], 1) > 0,
                   BLSignalCompatibilityID |-> Shr(tmp[5], 4)],
            err |-> "nil", n |-> DOVISize]

(***************************************************************************)
(* Length-prefixed byte blobs, the shape shared by the AVC parameter-set   *)
(* arrays and the HEVC NAL units.                                          *)
(***************************************************************************)
\* the big-endian uint16 at the head of s
Head16(s) == LET h == ToSeq(BTake(s, 2)) IN h[1] * 256 + h[2]

\* count nil blobs, the untouched tail of make([]T, count)
NilBlobs(count) == [i \in 1..count |-> <<>>]

\* One pass of the loop body "read a uint16 length, make([]byte, length),
\* io.ReadFull" on a source holding s: the blob as the pass leaves it (nil
\* when the length cannot be read; the bytes it got, then zeros, when the
\* source ends inside the blob), the error, and the unread bytes.
ReadBlob(s) ==
  IF ReadErr(s, 2) # "nil"
  THEN [blobs |-> NilBlobs(1), err |-> ReadErr(s, 2), rest |-> <<>>]
  ELSE LET length == Head16(s)
           body == BDrop(s, 2)
       IN  IF ReadErr(body, length) # "nil"
           THEN [blobs |-> <<BCat(body, Zeros(length - BLen(body)))>>,
                 err |-> ReadErr(body, length), rest |-> <<>>]
           ELSE [blobs |-> <<BTake(body, length)>>, err |-> "nil",
                 rest |-> BDrop(body, length)]

RECURSIVE ReadBlobs(_, _)
\* The loop run count times on a source holding s (the first half of the
\* passes, then the second half from where the first stopped): the slice
\* as the loop leaves it (entries after the failing one stay nil), the
\* error, and the unread bytes.
ReadBlobs(s, count) ==
  IF count = 0 THEN [blobs |-> <<>>, err |-> "nil", rest |-> s]
  ELSE IF count = 1 THEN ReadBlob(s)
  ELSE LET h == count \div 2
           p == ReadBlobs(s, h)
       IN  IF p.err # "nil"
           THEN [blobs |-> p.blobs \o NilBlobs(count - h),
                 err |-> p.err, rest |-> <<>>]
           ELSE LET q == ReadBlobs(p.rest, count - h)
                IN  [blobs |-> p.blobs \o q.blobs,
                     err |-> q.err, rest |-> q.rest]

\* The loop "write uint16(len(blob)), write blob": its write calls.
WriteBlobs(blobs) ==
  Concat([i \in 1..Len(blobs) |-> <<BE16(U16(BLen(blobs[i]))), blobs[i]>>])

\* the sum of the blobs' lengths
SumLen(blobs) == Sum([i \in 1..Len(blobs) |-> BLen(blobs[i])])

(***************************************************************************)
(* AVC decoder configuration record.                                       *)
(***************************************************************************)
ZeroAVC ==
  [ConfigurationVersion |-> 0, AVCProfileIndication |-> 0,
   ProfileCompatibility |-> 0, AVCLevelIndication |-> 0,
   LengthSizeMinusOne |-> 0,
   SequenceParameterSets |-> <<>>, PictureParameterSets |-> <<>>,
   ChromaFormat |-> 0, BitDepthLumaMinus8 |-> 0, BitDepthChromaMinus8 |-> 0,
   SequenceParameterSetExts |-> <<>>]

\* the extension section's condition without profile 144
AVCHasExtThree(b) == b.AVCProfileIndication \in {100, 110, 122}

\* the profiles that carry the extension section
AVCHasExt(b) == b.AVCProfileIndication \in {100, 110, 122, 144}

AVCRecordSize(b) ==
  (6 + 2 * Len(b.SequenceParameterSets) + SumLen(b.SequenceParameterSets)
      + 1 + 2 * Len(b.PictureParameterSets) + SumLen(b.PictureParameterSets)
      + IF AVCHasExt(b)
        THEN 4 + 2 * Len(b.SequenceParameterSetExts)
               + SumLen(b.SequenceParameterSetExts)
        ELSE 0)

\* the count byte with its reserved bits forced by the mask 0b11110000
AVCWriteSPSCountWideMask(b) == BitOr(U8(Len(b.SequenceParameterSets)), 240)

\* the byte holding numOfSequenceParameterSets
AVCWriteSPSCount(b) == BitOr(U8(Len(b.SequenceParameterSets)), 224)

\* the write calls of the extension section
AVCWriteExt(b) ==
  IF AVCHasExt(b)
  THEN << BE8(BitOr(b.ChromaFormat, 252)),
          BE8(BitOr(b.BitDepthLumaMinus8, 248)),
          BE8(BitOr(b.BitDepthChromaMinus8, 248)),
          BE8(U8(Len(b.SequenceParameterSetExts))) >>
       \o WriteBlobs(b.SequenceParameterSetExts)
  ELSE <<>>

\* The write calls of RecordWrite, in order.
AVCRecordWrite(b) ==
  << BE8(b.ConfigurationVersion), BE8(b.AVCProfileIndication),
     BE8(b.ProfileCompatibility), BE8(b.AVCLevelIndication),
     BE8(BitOr(b.LengthSizeMinusOne, 252)),
     BE8(AVCWriteSPSCount(b)) >>
  \o WriteBlobs(b.SequenceParameterSets)
  \o << BE8(U8(Len(b.PictureParameterSets))) >>
  \o WriteBlobs(b.PictureParameterSets)
  \o AVCWriteExt(b)

\* RecordRead after the PPS array: the extension section
AVCReadExt(b, s, total) ==
  IF ~AVCHasExt(b) THEN [b |-> b, err |-> "nil", n |-> total - BLen(s)]
  ELSE IF ReadErr(s, 4) # "nil"
  THEN [b |-> b, err |-> ReadErr(s, 4), n |-> total]
  ELSE LET tmp == ToSeq(BTake(s, 4))
           r == ReadBlobs(BDrop(s, 4), tmp[4])
       IN  [b |-> [b EXCEPT !.ChromaFormat = BitAnd(tmp[1], 3),
                            !.BitDepthLumaMinus8 = BitAnd(tmp[2], 7),
                            !.BitDepthChromaMinus8 = BitAnd(tmp[3], 7),
                            !.SequenceParameterSetExts = r.blobs],
            err |-> r.err, n |-> total - BLen(r.rest)]

\* RecordRead after the SPS array: the PPS count and array, then the rest
AVCReadPPS(b, s, total) ==
  IF ReadErr(s, 1) # "nil" THEN [b |-> b, err |-> ReadErr(s, 1), n |-> total]
  ELSE LET r == ReadBlobs(BDrop(s, 1), ToSeq(BTake(s, 1))[1])
           b2 == [b EXCEPT !.PictureParameterSets = r.blobs]
       IN  IF r.err # "nil" THEN [b |-> b2, err |-> r.err, n |-> total]
           ELSE AVCReadExt(b2, r.rest, total)

\* the fields RecordRead sets from the 6-byte header
AVCReadHeader(b, tmp) ==
  [b EXCEPT !.ConfigurationVersion = tmp[1],
            !.AVCProfileIndication = tmp[2],
            !.ProfileCompatibility = tmp[3],
            !.AVCLevelIndication = tmp[4],
            !.LengthSizeMinusOne = BitAnd(tmp[5], 3)]

\* RecordRead on record b from a source holding s:
\* the record afterwards, the error and the number of bytes taken.
AVCRecordRead(b, s) ==
  IF ReadErr(s, 6) # "nil"
  THEN [b |-> b, err |-> ReadErr(s, 6), n |-> BLen(s)]
  ELSE LET tmp == ToSeq(BTake(s, 6))
           r == ReadBlobs(BDrop(s, 6), BitAnd(tmp[6], 31))
           b2 == [AVCReadHeader(b, tmp) EXCEPT !.SequenceParameterSets = r.blobs]
       IN  IF r.err # "nil" THEN [b |-> b2, err |-> r.err, n |-> BLen(s)]
           ELSE AVCReadPPS(b2, r.rest, BLen(s))

(***************************************************************************)
(* HEVC decoder configuration record.                                      *)
(***************************************************************************)
HEVCHeaderSize == 23

ZeroNaluArray == [ArrayCompleteness |-> FALSE, NALUnitType |-> 0, NALUs |-> <<>>]

ZeroHEVC ==
  [ConfigurationVersion |-> 0, GeneralProfileSpace |-> 0,
   GeneralTierFlag |-> FALSE, GenertalProfileIndicator |-> 0,
   GeneralProfileCompatibilityFlags |-> <<0, 0, 0, 0>>,
   GeneralConstraintIndicatorFlags |-> <<0, 0, 0, 0, 0, 0, 0, 0>>,
   GeneralLevelIndicator |-> 0,
   MinSpatialSegmentationIndicator |-> 0, ParallelismType |-> 0,
   ChromaFormatIndicator |-> 0, BitDepthLumaMinus8 |-> 0,
   BitDepthChromaMinus8 |-> 0, AvgFrameRate |-> 0, ConstantFrameRate |-> 0,
   NumTemporalLayers |-> 0, TemporalIDNested |-> 0, LengthSizeMinusOne |-> 0,
   NaluArrays |-> <<>>]

\* naluCount of RecordSize: the NAL units of all arrays
NaluCount(arrays) == Sum([i \in 1..Len(arrays) |-> Len(arrays[i].NALUs)])

\* the payload bytes of all NAL units of all arrays
NaluBytes(arrays) == Sum([i \in 1..Len(arrays) |-> SumLen(arrays[i].NALUs)])

\* RecordSize without the 16-bit length prefixes of the NAL units
HEVCRecordSizeNoPrefix(b) ==
  HEVCHeaderSize + 3 * Len(b.NaluArrays) + NaluBytes(b.NaluArrays)

HEVCRecordSize(b) ==
  (HEVCHeaderSize + 3 * Len(b.NaluArrays) + NaluBytes(b.NaluArrays)
      + 2 * NaluCount(b.NaluArrays))

\* byte 1 of RecordWrite: profile space, tier flag, profile indicator
HEVCWriteProfileByte(b) ==
  LET tmp == BitOr(Shl8(b.GeneralProfileSpace, 6),
                   BitAnd(b.GenertalProfileIndicator, 31))
  IN  IF b.GeneralTierFlag THEN BitOr(tmp, 16) ELSE tmp

\* bytes 13..18 of RecordWrite, as its five write calls
HEVCWriteReserved(b) ==
  << BE16(BitOr(b.MinSpatialSegmentationIndicator, Shl16(15, 12))),
     BE8(BitOr(b.ParallelismType, 63)),
     BE8(BitOr(b.ChromaFormatIndicator, 63)),
     BE8(BitOr(b.BitDepthLumaMinus8, 31)),
     BE8(BitOr(b.BitDepthChromaMinus8, 31)) >>

\* byte 21 of RecordWrite
HEVCWriteRateByte(b) ==
  BitOr(BitOr(BitOr(Shl8(b.ConstantFrameRate, 6),
                    Shl8(BitAnd(b.NumTemporalLayers, 7), 3)),
              Shl8(BitAnd(b.TemporalIDNested, 1), 2)),
        BitAnd(b.LengthSizeMinusOne, 3))

\* the first byte of a NAL array with the completeness flag at bit 6
HEVCWriteArrayByteBit6(entry) ==
  LET tmp == BitAnd(U8(entry.NALUnitType), 63)
  IN  IF entry.ArrayCompleteness THEN BitOr(tmp, 64) ELSE tmp

\* the first byte of a NAL array on the wire
HEVCWriteArrayByte(entry) ==
  LET tmp == BitAnd(U8(entry.NALUnitType), 63)
  IN  IF entry.ArrayCompleteness THEN BitOr(tmp, 128) ELSE tmp

\* the write calls of the loop over b.NaluArrays
HEVCWriteArrays(arrays) ==
  Concat([i \in 1..Len(arrays) |->
            << BE8(HEVCWriteArrayByte(arrays[i])),
               BE16(U16(Len(arrays[i].NALUs))) >>
            \o WriteBlobs(arrays[i].NALUs)])

\* The write calls of RecordWrite, in order.
HEVCRecordWrite(b) ==
  << BE8(b.ConfigurationVersion),
     BE8(HEVCWriteProfileByte(b)),
     BE32(b.GeneralProfileCompatibilityFlags),
     FromSeq(Hi16of64(b.GeneralConstraintIndicatorFlags)),
     BE32(Lo32of64(b.GeneralConstraintIndicatorFlags)),
     BE8(b.GeneralLevelIndicator) >>
  \o HEVCWriteReserved(b)
  \o << BE16(b.AvgFrameRate),
        BE8(HEVCWriteRateByte(b)),
        BE8(U8(Len(b.NaluArrays))) >>
  \o HEVCWriteArrays(b.NaluArrays)

\* count zero arrays, the untouched tail of make([]NaluArray, count)
ZeroArrays(count) == [i \in 1..count |-> ZeroNaluArray]

\* One pass of the loop over the arrays on a source holding s: the array
\* as the pass leaves it, the error, and the unread bytes.
HEVCReadArray(s) ==
  IF ReadErr(s, 3) # "nil"
  THEN [arrays |-> ZeroArrays(1), err |-> ReadErr(s, 3), rest |-> <<>>]
  ELSE LET tmp == ToSeq(BTake(s, 3))
           naluCount == BitOr(Shl16(BitAnd(tmp[2], 15), 8), tmp[3])
           r == ReadBlobs(BDrop(s, 3), naluCount)
       IN  [arrays |-> << [ArrayCompleteness |-> Shr(tmp[1], 7) > 0,
                           NALUnitType |-> BitAnd(tmp[1], 63),
                           NALUs |-> r.blobs] >>,
            err |-> r.err, rest |-> r.rest]

RECURSIVE HEVCReadArrays(_, _)
\* The loop over entryCount arrays on a source holding s (the first half
\* of the passes, then the second half): b.NaluArrays as the loop leaves
\* it (entries after the failing one stay zero), the error, and the unread
\* bytes.
HEVCReadArrays(s, count) ==
  IF count = 0 THEN [arrays |-> <<>>, err |-> "nil", rest |-> s]
  ELSE IF count = 1 THEN HEVCReadArray(s)
  ELSE LET h == count \div 2
           p == HEVCReadArrays(s, h)
       IN  IF p.err # "nil"
           THEN [arrays |-> p.arrays \o ZeroArrays(count - h),
                 err |-> p.err, rest |-> <<>>]
           ELSE LET q == HEVCReadArrays(p.rest, count - h)
                IN  [arrays |-> p.arrays \o q.arrays,
                     err |-> q.err, rest |-> q.rest]

\* the fields RecordRead sets from the 23-byte header
HEVCReadHeader(b, tmp) ==
  [b EXCEPT
     !.ConfigurationVersion = tmp[1],
     !.GeneralProfileSpace = Shr(tmp[2], 6),
     !.GeneralTierFlag = BitAnd(Shr(tmp[2], 5), 1) > 0,
     !.GenertalProfileIndicator = BitAnd(tmp[2], 31),
     !.GeneralProfileCompatibilityFlags = SubSeq(tmp, 3, 6),
     !.GeneralConstraintIndicatorFlags = <<0, 0>> \o SubSeq(tmp, 7, 12),
     !.GeneralLevelIndicator = tmp[13],
     !.MinSpatialSegmentationIndicator =
        BitOr(Shl16(BitAnd(tmp[14], 15), 8), tmp[15]),
     !.ParallelismType = BitAnd(tmp[16], 3),
     !.ChromaFormatIndicator = BitAnd(tmp[17], 3),
     !.BitDepthLumaMinus8 = BitAnd(tmp[18], 7),
     !.BitDepthChromaMinus8 = BitAnd(tmp[19], 7),
     !.AvgFrameRate = BitOr(Shl16(tmp[20], 8), tmp[21]),
     !.ConstantFrameRate = Shr(tmp[22], 6),
     !.NumTemporalLayers = BitAnd(Shr(tmp[22], 3), 7),
     !.TemporalIDNested = BitAnd(Shr(tmp[22], 2), 1),
     !.LengthSizeMinusOne = BitAnd(tmp[22], 3)]

\* RecordRead on record b from a source holding s:
\* the record afterwards, the error and the number of bytes taken.
HEVCRecordRead(b, s) ==
  IF ReadErr(s, HEVCHeaderSize) # "nil"
  THEN [b |-> b, err |-> ReadErr(s, HEVCHeaderSize), n |-> BLen(s)]
  ELSE LET tmp == ToSeq(BTake(s, HEVCHeaderSize))
           r == HEVCReadArrays(BDrop(s, HEVCHeaderSize), tmp[23])
       IN  [b |-> [HEVCReadHeader(b, tmp) EXCEPT !.NaluArrays = r.arrays],
            err |-> r.err, n |-> Taken(s, r.rest)]

(***************************************************************************)
(* HEVC record builder.  ParseSPSNALUnit is the parameter-set parser the   *)
(* builder consults; it is a deterministic function of the blob it is      *)
(* given: it rejects a blob shorter than three bytes and reads the profile *)
(* byte, the level and the chroma/bit-depth byte from an accepted one.     *)
(***************************************************************************)
NALU_VPS == 32
NALU_SPS == 33
NALU_PPS == 34

ParseSPSNALUnit(nalu) ==
  IF BLen(nalu) < 3
  THEN [err |-> "MalformedParameterSet"]
  ELSE LET q == ToSeq(BTake(nalu, 3))
       IN  [err |-> "nil",
            GeneralProfileSpace |-> Shr(q[1], 6),
            GeneralTierFlag |-> BitAnd(Shr(q[1], 5), 1) > 0,
            GeneralProfileIndicator |-> BitAnd(q[1], 31),
            GeneralProfileCompatibilityFlags |-> <<q[1], 0, 0, 0>>,
            GeneralConstraintIndicatorFlags |-> <<0, 0, q[2], 0, 0, 0, 0, 0>>,
            GeneralLevelIndicator |-> q[2],
            ChromaFormatIndicator |-> BitAnd(q[3], 3),
            BitDepthLumaMinus8 |-> BitAnd(Shr(q[3], 2), 7),
            BitDepthChromaMinus8 |-> BitAnd(Shr(q[3], 5), 7)]

\* the NAL arrays of a builder that keeps only the SPS it parsed
BuilderNaluArraysParsedOnly(a) ==
  << [ArrayCompleteness |-> a.vpsComplete,
      NALUnitType |-> NALU_VPS, NALUs |-> a.vpsNalus],
     [ArrayCompleteness |-> a.spsComplete,
      NALUnitType |-> NALU_SPS, NALUs |-> SubSeq(a.spsNalus, 1, 1)],
     [ArrayCompleteness |-> a.ppsComplete,
      NALUnitType |-> NALU_PPS, NALUs |-> a.ppsNalus] >>

\* naluArrays of the builder after its three appends
BuilderNaluArrays(a) ==
  << [ArrayCompleteness |-> a.vpsComplete,
      NALUnitType |-> NALU_VPS, NALUs |-> a.vpsNalus],
     [ArrayCompleteness |-> a.spsComplete,
      NALUnitType |-> NALU_SPS, NALUs |-> a.spsNalus],
     [ArrayCompleteness |-> a.ppsComplete,
      NALUnitType |-> NALU_PPS, NALUs |-> a.ppsNalus] >>

\* The call CreateHEVCDecoderConfigurationRecord(a.vpsNalus, a.spsNalus,
\* a.ppsNalus, a.vpsComplete, a.spsComplete, a.ppsComplete): how it ends
\* ("panic": the run-time fault of spsNalus[0] on an empty slice; "return"),
\* the record and the error it returns.
CreateHEVCDecoderConfigurationRecord(a) ==
  IF Len(a.spsNalus) = 0
  THEN [outcome |-> "panic", rec |-> ZeroHEVC, err |-> "index out of range"]
  ELSE LET sps == ParseSPSNALUnit(a.spsNalus[1])
       IN  IF sps.err # "nil"
           THEN [outcome |-> "return", rec |-> ZeroHEVC, err |-> sps.err]
           ELSE [outcome |-> "return", err |-> "nil",
                 rec |->
                   [ConfigurationVersion |-> 1,
                    GeneralProfileSpace |-> sps.GeneralProfileSpace,
                    GeneralTierFlag |-> sps.GeneralTierFlag,
                    GenertalProfileIndicator |-> sps.GeneralProfileIndicator,
                    GeneralProfileCompatibilityFlags |->
                      sps.GeneralProfileCompatibilityFlags,
                    GeneralConstraintIndicatorFlags |->
                      sps.GeneralConstraintIndicatorFlags,
                    GeneralLevelIndicator |-> sps.GeneralLevelIndicator,
                    MinSpatialSegmentationIndicator |-> 0,
                    ParallelismType |-> 0,
                    ChromaFormatIndicator |-> sps.ChromaFormatIndicator,
                    BitDepthLumaMinus8 |-> sps.BitDepthLumaMinus8,
                    BitDepthChromaMinus8 |-> sps.BitDepthChromaMinus8,
                    AvgFrameRate |-> 0,
                    ConstantFrameRate |-> 0,
                    NumTemporalLayers |-> 0,
                    TemporalIDNested |-> 0,
                    LengthSizeMinusOne |-> 3,
                    NaluArrays |-> BuilderNaluArrays(a)]]

(***************************************************************************)
(* The records and builder arguments the operations are applied to.        *)
(***************************************************************************)
MaxBlobLen == 2
MaxBlobs == 2
MaxArrays == 2
MaxFailAt == 2
MaxCut == 80
MaxGen == 2

\* a blob of n bytes, its content set by seed
Blob(n, seed) == FromSeq([i \in 1..n |-> U8(seed + 3 * i)])

\* a blob of n >= 2 bytes too long to spell out
BigBlob(n) == <<Run(n - 1, 170), Run(1, 85)>>

\* k blobs of lengths n, n+1, ... taken modulo MaxBlobLen + 1
BlobList(k, n) ==
  [j \in 1..k |-> Blob((n + j - 1) % (MaxBlobLen + 1), 16 * j + n)]

BlobLists == {BlobList(k, n) : k \in 0..MaxBlobs, n \in {0, MaxBlobLen}}

\* k empty blobs
EmptyBlobs(k) == [j \in 1..k |-> <<>>]

DOVIInputs ==
  { [VersionMajor |-> 1, VersionMinor |-> 0, Profile |-> p, Level |-> l,
     RPUPresent |-> f[1], ELPresent |-> f[2], BLPresent |-> f[3],
     BLSignalCompatibilityID |-> c] :
      p \in {5, 127, 200}, l \in {3, 32, 63, 77},
      f \in {<<TRUE, FALSE, TRUE>>, <<FALSE, TRUE, FALSE>>, <<FALSE, FALSE, FALSE>>},
      c \in {2, 15, 31} }
  \cup
  { [VersionMajor |-> 255, VersionMinor |-> 254, Profile |-> 0, Level |-> l,
     RPUPresent |-> TRUE, ELPresent |-> TRUE, BLPresent |-> TRUE,
     BLSignalCompatibilityID |-> c] :
      l \in {0, 31}, c \in {0, 15} }

AVCBase ==
  [ConfigurationVersion |-> 1, AVCProfileIndication |-> 100,
   ProfileCompatibility |-> 64, AVCLevelIndication |-> 31,
   LengthSizeMinusOne |-> 3,
   SequenceParameterSets |-> <<Blob(2, 103)>>,
   PictureParameterSets |-> <<Blob(1, 104)>>,
   ChromaFormat |-> 1, BitDepthLumaMinus8 |-> 0, BitDepthChromaMinus8 |-> 0,
   SequenceParameterSetExts |-> <<>>]

AVCInputs ==
  { [AVCBase EXCEPT !.AVCProfileIndication = p,
                    !.SequenceParameterSets = s,
                    !.PictureParameterSets = q,
                    !.SequenceParameterSetExts = e,
                    !.ChromaFormat = IF p = 66 /\ e = <<>> THEN 0 ELSE 1] :
      p \in {66, 100, 144}, s \in BlobLists, q \in BlobLists,
      e \in {<<>>, BlobList(MaxBlobs, MaxBlobLen)} }
  \cup
  { [AVCBase EXCEPT !.AVCProfileIndication = p,
                    !.ConfigurationVersion = v,
                    !.LengthSizeMinusOne = l,
                    !.ChromaFormat = c,
                    !.BitDepthLumaMinus8 = d[1],
                    !.BitDepthChromaMinus8 = d[2]] :
      p \in {77, 110, 122}, v \in {0, 255}, l \in {0, 1, 3, 255},
      c \in {0, 3, 255}, d \in {<<0, 0>>, <<7, 2>>, <<4, 255>>} }
  \cup
  { [AVCBase EXCEPT !.SequenceParameterSets = EmptyBlobs(k)] : k \in {31, 32} }
  \cup
  { [AVCBase EXCEPT !.PictureParameterSets = EmptyBlobs(k)] : k \in {255, 256} }
  \cup
  { [AVCBase EXCEPT !.SequenceParameterSetExts = EmptyBlobs(k)] :
      k \in {255, 256} }
  \cup
  { [AVCBase EXCEPT !.SequenceParameterSets = <<BigBlob(n)>>] :
      n \in {65535, 65536} }

\* k NAL arrays, their flags, types and NAL units set by v
ArrayList(k, v) ==
  [j \in 1..k |->
     [ArrayCompleteness |-> (j + v) % 2 = 0,
      NALUnitType |-> IF (j + v) % 3 = 0 THEN 63 ELSE NALU_VPS + ((j + v) % 3) - 1,
      NALUs |-> BlobList((j + v) % (MaxBlobs + 1), v % (MaxBlobLen + 1))]]

ArrayLists == {ArrayList(k, v) : k \in 0..MaxArrays, v \in 0..5}

\* the arrays of a record that holds the single NAL unit nalu
OneNalu(nalu) ==
  << [ArrayCompleteness |-> TRUE, NALUnitType |-> NALU_SPS, NALUs |-> <<nalu>>] >>

\* version 1, profile 1, compatibility flags 0x60000000, constraint flags
\* 0xB00050F00000, level 93, four-byte NAL lengths, and one complete array
\* each for a 5-byte VPS, a 20-byte SPS and a 10-byte PPS
HEVCScenarioA ==
  [ZeroHEVC EXCEPT
     !.ConfigurationVersion = 1,
     !.GenertalProfileIndicator = 1,
     !.GeneralProfileCompatibilityFlags = <<96, 0, 0, 0>>,
     !.GeneralConstraintIndicatorFlags = <<0, 0, 176, 0, 80, 240, 0, 0>>,
     !.GeneralLevelIndicator = 93,
     !.LengthSizeMinusOne = 3,
     !.NaluArrays =
        << [ArrayCompleteness |-> TRUE, NALUnitType |-> NALU_VPS,
            NALUs |-> <<Blob(5, 64)>>],
           [ArrayCompleteness |-> TRUE, NALUnitType |-> NALU_SPS,
            NALUs |-> <<Blob(20, 66)>>],
           [ArrayCompleteness |-> TRUE, NALUnitType |-> NALU_PPS,
            NALUs |-> <<Blob(10, 68)>>] >>]

\* Scenario A's header over a single one-byte SPS
HEVCBase == [HEVCScenarioA EXCEPT !.NaluArrays = OneNalu(Blob(1, 66))]

HEVCInputs ==
  {HEVCScenarioA}
  \cup { [HEVCBase EXCEPT !.NaluArrays = a] : a \in ArrayLists }
  \cup { [HEVCBase EXCEPT !.GeneralProfileSpace = s,
                          !.GeneralTierFlag = f,
                          !.GenertalProfileIndicator = p] :
           s \in 0..3, f \in BOOLEAN, p \in {0, 1, 15, 16, 31, 255} }
  \cup { [HEVCBase EXCEPT !.ConstantFrameRate = c,
                          !.NumTemporalLayers = n,
                          !.TemporalIDNested = i,
                          !.LengthSizeMinusOne = l] :
           c \in {0, 1, 3}, n \in {0, 5, 7, 255}, i \in {0, 1},
           l \in {0, 3} }
  \cup { [HEVCBase EXCEPT !.MinSpatialSegmentationIndicator = m,
                          !.ParallelismType = p,
                          !.ChromaFormatIndicator = c] :
           m \in {0, 1, 256, 4095, 65535}, p \in {0, 1, 3}, c \in {0, 2, 3} }
  \cup { [HEVCBase EXCEPT !.BitDepthLumaMinus8 = l,
                          !.BitDepthChromaMinus8 = c,
                          !.AvgFrameRate = r] :
           l \in {0, 2, 7}, c \in {0, 5, 7, 255}, r \in {0, 258, 65535} }
  \cup { [HEVCBase EXCEPT !.ConfigurationVersion = v,
                          !.GeneralProfileCompatibilityFlags = p,
                          !.GeneralConstraintIndicatorFlags = c,
                          !.GeneralLevelIndicator = l] :
           v \in {0, 1, 255},
           p \in {<<0, 0, 0, 0>>, <<255, 255, 255, 255>>, <<1, 2, 3, 4>>},
           c \in {<<0, 0, 0, 0, 0, 0, 0, 0>>, <<0, 0, 255, 254, 253, 252, 251, 250>>,
                  <<9, 8, 7, 6, 5, 4, 3, 2>>},
           l \in {0, 255} }
  \cup { [HEVCBase EXCEPT !.NaluArrays = OneNalu(BigBlob(n))] :
           n \in {65535, 65536, 65537} }
  \cup { [HEVCBase EXCEPT !.NaluArrays =
            << [ArrayCompleteness |-> FALSE, NALUnitType |-> t,
                NALUs |-> EmptyBlobs(k)] >>] :
           t \in {0, 40, 255}, k \in {300, 4095, 4096} }
  \cup { [HEVCBase EXCEPT !.NaluArrays = ZeroArrays(k)] : k \in {255, 256} }

\* blobs the parameter-set parser accepts
ParsedSPS == {Blob(4, 66), FromSeq(<<255, 93, 255>>), FromSeq(<<33, 120, 0, 7>>)}

BuilderInputs ==
  { [vpsNalus |-> v, spsNalus |-> s, ppsNalus |-> p,
     vpsComplete |-> f[1], spsComplete |-> f[2], ppsComplete |-> f[3]] :
      v \in {<<>>, <<Blob(2, 64)>>},
      s \in BlobLists \cup {<<x>> : x \in ParsedSPS}
             \cup {<<x, Blob(1, 9)>> : x \in ParsedSPS},
      p \in {<<Blob(2, 68), Blob(1, 70)>>},
      f \in {<<TRUE, TRUE, TRUE>>, <<FALSE, TRUE, FALSE>>, <<TRUE, FALSE, FALSE>>,
             <<FALSE, FALSE, TRUE>>} }

NoArgs ==
  [vpsNalus |-> <<>>, spsNalus |-> <<>>, ppsNalus |-> <<>>,
   vpsComplete |-> FALSE, spsComplete |-> FALSE, ppsComplete |-> FALSE]

(***************************************************************************)
(* The state machine.  A record of one kind is either given or built by    *)
(* the HEVC builder; the box layer asks its size and encodes it into a     *)
(* sink; the bytes the sink took are handed, whole, cut short or with      *)
(* their padding replaced, to a source; RecordRead decodes the source into *)
(* a fresh record.  A decoded HEVC record may in turn become the record to *)
(* encode, and a record that was decoded into may be decoded into again.   *)
(***************************************************************************)
VARIABLES
  pc,      \* "args", "rec", "written", "loaded", "read", "reread", "panic",
           \* "failed"
  kind,    \* "dovi", "avc", "hevc"
  args,    \* the builder's arguments
  rec,     \* the record to encode
  berr,    \* the builder's error
  size,    \* RecordSize(rec), asked before writing
  sink,    \* the bytes the sink accepted
  wcalls,  \* the number of write calls RecordWrite made
  werr,    \* RecordWrite's error
  src,     \* the bytes of the source RecordRead is given
  dst,     \* the record RecordRead is applied to
  rerr,    \* RecordRead's error
  nread,   \* the number of bytes RecordRead took from the source
  gen,     \* how many decodes lie behind rec (0: rec was given or built)
  prev,    \* the encoding of the record before rec (gen > 0)
  wire,    \* the bytes rec was decoded from (gen > 0)
  failat   \* the write call at which the sink fails (0, or beyond: none)

vars ==
  <<pc, kind, args, rec, berr, size, sink, wcalls, werr, src, dst, rerr, nread,
    gen, prev, wire, failat>>

ZeroOf(k) ==
  CASE k = "dovi" -> ZeroDOVI [] k = "avc" -> ZeroAVC [] k = "hevc" -> ZeroHEVC

RecordSizeOf(k, b) ==
  CASE k = "dovi" -> DOVIRecordSize(b)
    [] k = "avc" -> AVCRecordSize(b)
    [] k = "hevc" -> HEVCRecordSize(b)

RecordWriteOf(k, b) ==
  CASE k = "dovi" -> DOVIRecordWrite(b)
    [] k = "avc" -> AVCRecordWrite(b)
    [] k = "hevc" -> HEVCRecordWrite(b)

RecordReadOf(k, b, s) ==
  CASE k = "dovi" -> DOVIRecordRead(b, s)
    [] k = "avc" -> AVCRecordRead(b, s)
    [] k = "hevc" -> HEVCRecordRead(b, s)

Start(k, r, a, p) ==
  /\ kind = k /\ rec = r /\ args = a /\ pc = p
  /\ berr = "nil" /\ size = 0 /\ sink = <<>> /\ wcalls = 0 /\ werr = "nil"
  /\ src = <<>> /\ dst = ZeroOf(k) /\ rerr = "nil" /\ nread = 0
  /\ gen = 0 /\ prev = <<>> /\ wire = <<>> /\ failat = 0

Init ==
  \/ \E r \in DOVIInputs : Start("dovi", r, NoArgs, "rec")
  \/ \E r \in AVCInputs : Start("avc", r, NoArgs, "rec")
  \/ \E r \in HEVCInputs : Start("hevc", r, NoArgs, "rec")
  \/ \E a \in BuilderInputs : Start("hevc", ZeroHEVC, a, "args")

\* CreateHEVCDecoderConfigurationRecord is called on args.
Build ==
  /\ pc = "args"
  /\ LET r == CreateHEVCDecoderConfigurationRecord(args)
     IN  /\ rec' = r.rec
         /\ berr' = r.err
         /\ pc' = IF r.outcome = "panic" THEN "panic"
                  ELSE IF r.err # "nil" THEN "failed" ELSE "rec"
  /\ UNCHANGED <<kind, args, size, sink, wcalls, werr, src, dst, rerr, nread, gen, prev, wire, failat>>

\* the write calls made when every error returned by a write is ignored
CallsIgnoringFailure(calls, k) == calls

\* "if err = binary.Write(...); err != nil { return }": the write calls made
\* when the k-th one returns an error
CallsUntilFailure(calls, k) == SubSeq(calls, 1, k)

\* the write calls at which a sink is made to fail: none, an early one, the
\* last one
FailAts(calls) == (0..MaxFailAt) \cup {Len(calls)}

\* how many bytes of its chunk a failing write may have accepted
Accepted(calls, k) ==
  IF k \in 1..Len(calls)
  THEN {n \in {0, BLen(calls[k]) - 1} : n >= 0}
  ELSE {0}

\* RecordSize, then RecordWrite, whose write calls on a sink that takes
\* them all are calls, into a sink whose k-th write call accepts j bytes and
\* returns an error (k = 0, or k beyond the last call: no write fails).
WriteTo(calls, k, j) ==
  /\ pc = "rec"
  /\ LET fails == k \in 1..Len(calls)
         made == IF fails THEN CallsUntilFailure(calls, k) ELSE calls
     IN  /\ size' = RecordSizeOf(kind, rec)
         /\ sink' = IF fails
                    THEN BCat(BCat(Flatten(SubSeq(made, 1, k - 1)),
                                   BTake(made[k], j)),
                              Flatten(SubSeq(made, k + 1, Len(made))))
                    ELSE Flatten(made)
         /\ wcalls' = Len(made)
         /\ werr' = IF fails /\ Len(made) = k THEN "ErrSink" ELSE "nil"
  /\ failat' = k
  /\ pc' = "written"
  /\ UNCHANGED <<kind, args, rec, berr, src, dst, rerr, nread, gen, prev, wire>>

Write ==
  /\ pc = "rec"
  /\ \E calls \in {RecordWriteOf(kind, rec)} :
        \E k \in FailAts(calls) : \E j \in Accepted(calls, k) :
           WriteTo(calls, k, j)

\* The encoded bytes become the source, as they are.
Deliver ==
  /\ pc = "written" /\ werr = "nil"
  /\ src' = sink
  /\ pc' = "loaded"
  /\ UNCHANGED <<kind, args, rec, berr, size, sink, wcalls, werr, dst, rerr, nread, gen, prev, wire, failat>>

\* where a source holding a prefix of s may end
CutPoints(s) ==
  {n \in 0..(BLen(s) - 1) : n <= MaxCut \/ n >= BLen(s) - 2}

\* The source ends after the first n bytes of the encoding of a given or
\* built record.
DeliverTruncated ==
  /\ pc = "written" /\ werr = "nil" /\ gen = 0
  /\ \E n \in CutPoints(sink) : src' = BTake(sink, n)
  /\ pc' = "loaded"
  /\ UNCHANGED <<kind, args, rec, berr, size, sink, wcalls, werr, dst, rerr, nread, gen, prev, wire, failat>>

PadNibbles == {0, 5, 15}
PadBytes == {0, 1, 255}

\* a Dolby Vision record's bytes with the low nibble of byte 4 set to p and
\* bytes 5..23 set to f
Repad(s, p, f) ==
  LET q == ToSeq(s)
  IN  FromSeq([i \in 1..Len(q) |->
                 IF i <= 4 THEN q[i]
                 ELSE IF i = 5 THEN Shr(q[5], 4) * 16 + p ELSE f])

\* The source holds a Dolby Vision record with other padding.
DeliverRepadded ==
  /\ pc = "written" /\ werr = "nil" /\ kind = "dovi"
  /\ \E p \in PadNibbles, f \in PadBytes : src' = Repad(sink, p, f)
  /\ pc' = "loaded"
  /\ UNCHANGED <<kind, args, rec, berr, size, sink, wcalls, werr, dst, rerr, nread, gen, prev, wire, failat>>

\* header bytes as a source other than RecordWrite may send them: the tier
\* bit at bit 5, reserved bits that are not all ones, fields below them
HeaderPatches ==
  { [i \in {2, 14, 16, 17, 18, 19} |->
       CASE i = 2 -> 33 [] i = 14 -> 1 [] i = 16 -> 1 [] i = 17 -> 2
         [] i = 18 -> 5 [] i = 19 -> 3],
    [i \in {2, 14, 16, 17, 18, 19} |->
       CASE i = 2 -> 255 [] i = 14 -> 240 [] i = 16 -> 252 [] i = 17 -> 253
         [] i = 18 -> 250 [] i = 19 -> 248],
    [i \in {2, 16, 24, 25} |->
       CASE i = 2 -> 96 [] i = 16 -> 130 [] i = 24 -> 225 [] i = 25 -> 160] }

\* the bytes s with byte i (counted from 1) replaced by patch[i]
Rewire(s, patch) ==
  LET q == ToSeq(BTake(s, 25))
  IN  BCat(FromSeq([i \in 1..Len(q) |->
                      IF i \in DOMAIN patch THEN patch[i] ELSE q[i]]),
           BDrop(s, 25))

\* The source holds an HEVC record whose header another writer produced.
DeliverRewired ==
  /\ pc = "written" /\ werr = "nil" /\ kind = "hevc" /\ gen = 0
  /\ \E patch \in HeaderPatches : src' = Rewire(sink, patch)
  /\ pc' = "loaded"
  /\ UNCHANGED <<kind, args, rec, berr, size, sink, wcalls, werr, dst, rerr, nread,
                 gen, prev, wire, failat>>

\* bytes of whatever follows the record in its container
Trailers == {FromSeq(<<0>>), FromSeq(<<253, 250, 251, 1, 0, 1, 9>>)}

\* The source holds the encoded bytes and, behind them, other bytes.
DeliverTrailing ==
  /\ pc = "written" /\ werr = "nil" /\ gen = 0
  /\ \E t \in Trailers : src' = BCat(sink, t)
  /\ pc' = "loaded"
  /\ UNCHANGED <<kind, args, rec, berr, size, sink, wcalls, werr, dst, rerr, nread,
                 gen, prev, wire, failat>>

\* RecordRead on dst from the source.
Read ==
  /\ pc = "loaded"
  /\ LET r == RecordReadOf(kind, dst, src)
     IN  /\ dst' = r.b
         /\ rerr' = r.err
         /\ nread' = r.n
  /\ pc' = "read"
  /\ UNCHANGED <<kind, args, rec, berr, size, sink, wcalls, werr, src,
                 gen, prev, wire, failat>>

\* records whose encodings a record is decoded from a second time
SecondRecords(k) ==
  CASE k = "dovi" ->
         { [VersionMajor |-> 1, VersionMinor |-> 0, Profile |-> 8, Level |-> 6,
            RPUPresent |-> TRUE, ELPresent |-> FALSE, BLPresent |-> TRUE,
            BLSignalCompatibilityID |-> 1] }
    [] k = "avc" ->
         { [AVCBase EXCEPT !.AVCProfileIndication = 66, !.ChromaFormat = 0],
           [AVCBase EXCEPT !.BitDepthLumaMinus8 = 2,
                           !.SequenceParameterSetExts = <<Blob(1, 7)>>] }
    [] k = "hevc" ->
         { HEVCScenarioA, [HEVCBase EXCEPT !.NaluArrays = <<>>] }

SecondWires(k) == {Flatten(RecordWriteOf(k, r)) : r \in SecondRecords(k)}

\* RecordRead on dst, which an earlier RecordRead filled, from a source
\* holding another record of the same kind.
ReadAgain ==
  /\ pc \in {"read", "reread"} /\ rerr = "nil" /\ gen = 0
  /\ \E w \in SecondWires(kind) :
        /\ src' = w
        /\ LET r == RecordReadOf(kind, dst, w)
           IN  /\ dst' = r.b
               /\ rerr' = r.err
               /\ nread' = r.n
  /\ pc' = "reread"
  /\ UNCHANGED <<kind, args, rec, berr, size, sink, wcalls, werr,
                 gen, prev, wire, failat>>

\* The HEVC record just decoded becomes the record to encode; the next
\* decode is given a fresh record.
Reencode ==
  /\ pc = "read" /\ rerr = "nil" /\ kind = "hevc" /\ gen < MaxGen
  /\ rec' = dst
  /\ gen' = gen + 1
  /\ prev' = sink
  /\ wire' = src
  /\ size' = 0 /\ sink' = <<>> /\ wcalls' = 0 /\ werr' = "nil"
  /\ src' = <<>> /\ dst' = ZeroOf(kind) /\ rerr' = "nil" /\ nread' = 0
  /\ failat' = 0
  /\ pc' = "rec"
  /\ UNCHANGED <<kind, args, berr>>

Next ==
  \/ Build
  \/ Write
  \/ Deliver
  \/ DeliverTruncated
  \/ DeliverRepadded
  \/ DeliverRewired
  \/ DeliverTrailing
  \/ Read
  \/ ReadAgain
  \/ Reencode

Spec == Init /\ [][Next]_vars

(***************************************************************************)
(* Properties.                                                             *)
(***************************************************************************)
\* RecordWrite has returned
Written == pc \in {"written", "loaded", "read"}

\* RecordWrite has returned without error: the sink holds the whole encoding
Encoded == Written /\ werr = "nil"

\* RecordRead has returned, and its source held exactly the encoded bytes
RoundTrip == pc = "read" /\ src = sink

\* every blob fits a 16-bit length
BlobsFit(blobs) == \A i \in 1..Len(blobs) : BLen(blobs[i]) <= 65535

HEVCInRange(b) ==
  /\ b.GeneralProfileSpace \in 0..3
  /\ b.GenertalProfileIndicator \in 0..31
  /\ b.GeneralConstraintIndicatorFlags[1] = 0
  /\ b.GeneralConstraintIndicatorFlags[2] = 0
  /\ b.MinSpatialSegmentationIndicator \in 0..4095
  /\ b.ParallelismType \in 0..3
  /\ b.ChromaFormatIndicator \in 0..3
  /\ b.BitDepthLumaMinus8 \in 0..7
  /\ b.BitDepthChromaMinus8 \in 0..7
  /\ b.ConstantFrameRate \in 0..3
  /\ b.NumTemporalLayers \in 0..7
  /\ b.TemporalIDNested \in 0..1
  /\ b.LengthSizeMinusOne \in 0..3
  /\ Len(b.NaluArrays) <= 255
  /\ \A i \in 1..Len(b.NaluArrays) :
       /\ b.NaluArrays[i].NALUnitType \in 0..63
       /\ Len(b.NaluArrays[i].NALUs) < 4096
       /\ BlobsFit(b.NaluArrays[i].NALUs)

HighProfiles == {100, 110, 122, 144}

AVCCountsFit(b) ==
  /\ Len(b.SequenceParameterSets) <= 31
  /\ Len(b.PictureParameterSets) <= 255
  /\ Len(b.SequenceParameterSetExts) <= 255
  /\ BlobsFit(b.SequenceParameterSets)
  /\ BlobsFit(b.PictureParameterSets)
  /\ BlobsFit(b.SequenceParameterSetExts)

AVCInRange(b) ==
  /\ AVCCountsFit(b)
  /\ b.LengthSizeMinusOne \in 0..3
  /\ b.ChromaFormat \in 0..3
  /\ b.BitDepthLumaMinus8 \in 0..7
  /\ b.BitDepthChromaMinus8 \in 0..7
  /\ b.AVCProfileIndication \notin HighProfiles =>
       /\ b.ChromaFormat = 0
       /\ b.BitDepthLumaMinus8 = 0
       /\ b.BitDepthChromaMinus8 = 0
       /\ b.SequenceParameterSetExts = <<>>

DOVIInRange(b) ==
  /\ b.Profile \in 0..127
  /\ b.Level \in 0..63
  /\ b.BLSignalCompatibilityID \in 0..15

\* C1: an HEVC record with every field in range, encoded and decoded into a
\* fresh record, decodes without error to a record equal to it.
C1_HEVCRoundTrip ==
  (kind = "hevc" /\ RoundTrip /\ HEVCInRange(rec)) =>
     (rerr = "nil" /\ dst = rec)

\* C2: an AVC record within the valid ranges, encoded and decoded into a
\* fresh record, decodes without error to a record equal to it, blobs in
\* the same order with the same content.
C2_AVCRoundTrip ==
  (kind = "avc" /\ RoundTrip /\ AVCInRange(rec)) =>
     (rerr = "nil" /\ dst = rec)

C2_Witness ==
  /\ kind = "avc" /\ RoundTrip /\ AVCInRange(rec)
  /\ rec.AVCProfileIndication \in HighProfiles
  /\ Len(rec.SequenceParameterSets) > 1
  /\ Len(rec.PictureParameterSets) > 1
  /\ Len(rec.SequenceParameterSetExts) > 1
  /\ dst = rec

\* C3: a Dolby Vision record with profile, level and compatibility id in
\* range is written as exactly 24 bytes, the low nibble of byte 4 and bytes
\* 5..23 zero, the level's top bit in the bottom bit of byte 2 and its five
\* low bits in the top five bits of byte 3; decoding those bytes, whatever
\* the padding is replaced by, gives back every field of the record.
C3_DOVIRoundTrip ==
  (kind = "dovi" /\ DOVIInRange(rec)) =>
     /\ Encoded =>
          /\ BLen(sink) = 24
          /\ LET q == ToSeq(sink)
             IN  /\ q[5] % 16 = 0
                 /\ \A i \in 6..24 : q[i] = 0
                 /\ q[3] % 2 = rec.Level \div 32
                 /\ q[4] \div 8 = rec.Level % 32
     /\ (pc = "read" /\ BLen(src) = 24) => (rerr = "nil" /\ dst = rec)

C3_Witness ==
  /\ kind = "dovi" /\ DOVIInRange(rec) /\ pc = "read"
  /\ BLen(src) = 24 /\ src # sink
  /\ rec.Level >= 32 /\ rec.RPUPresent /\ ~rec.ELPresent
  /\ dst = rec

\* the bytes of an AVC record up to the end of the PPS array
AVCBodyLen(b) ==
  7 + 2 * Len(b.SequenceParameterSets) + SumLen(b.SequenceParameterSets)
    + 2 * Len(b.PictureParameterSets) + SumLen(b.PictureParameterSets)

C5_AVCExtSection ==
  (kind = "avc" /\ Encoded) =>
     LET ext == BDrop(sink, AVCBodyLen(rec))
         high == rec.AVCProfileIndication \in HighProfiles
     IN  /\ BLen(sink) >= AVCBodyLen(rec)
         /\ ~high => ext = <<>>
         /\ high =>
              /\ BLen(ext) = 4 + 2 * Len(rec.SequenceParameterSetExts)
                               + SumLen(rec.SequenceParameterSetExts)
              /\ ToSeq(BTake(ext, 4))[4] = U8(Len(rec.SequenceParameterSetExts))
         /\ (RoundTrip /\ AVCCountsFit(rec)) =>
              /\ rerr = "nil"
              /\ nread = BLen(sink)
              /\ ~high =>
                   /\ dst.ChromaFormat = 0
                   /\ dst.BitDepthLumaMinus8 = 0
                   /\ dst.BitDepthChromaMinus8 = 0
                   /\ dst.SequenceParameterSetExts = <<>>
              /\ high =>
                   /\ dst.ChromaFormat = rec.ChromaFormat % 4
                   /\ dst.SequenceParameterSetExts = rec.SequenceParameterSetExts

C5_Witness ==
  /\ kind = "avc" /\ RoundTrip
  /\ rec.AVCProfileIndication = 66
  /\ rec.ChromaFormat # 0
  /\ rec.SequenceParameterSetExts # <<>>
  /\ BLen(sink) = AVCBodyLen(rec)
  /\ dst.ChromaFormat = 0 /\ dst.SequenceParameterSetExts = <<>>

\* some NAL unit of the record is longer than a 16-bit length can say
HasOversizeNalu(b) ==
  \E i \in 1..Len(b.NaluArrays) : ~BlobsFit(b.NaluArrays[i].NALUs)

\* C6: RecordWrite on an HEVC record holding a NAL unit of 65536 bytes or
\* more returns an error, and a NAL unit of exactly 65535 bytes is written
\* behind the length prefix 0xFFFF and decodes to the same bytes.
C6_NaluLengthBoundary ==
  kind = "hevc" =>
     /\ (Written /\ HasOversizeNalu(rec)) => werr # "nil"
     /\ (RoundTrip /\ rec.NaluArrays = OneNalu(BigBlob(65535))) =>
          /\ BTake(BDrop(sink, 26), 2) = FromSeq(<<255, 255>>)
          /\ rerr = "nil"
          /\ dst.NaluArrays = rec.NaluArrays

\* C7: RecordWrite on an AVC record with more than 31 SPS, more than 255 PPS
\* or more than 255 SPS-extensions returns an error.
C7_AVCCountOverflow ==
  (kind = "avc" /\ Written
     /\ (\/ Len(rec.SequenceParameterSets) > 31
         \/ Len(rec.PictureParameterSets) > 255
         \/ (/\ rec.AVCProfileIndication \in HighProfiles
             /\ Len(rec.SequenceParameterSetExts) > 255)))
    => werr # "nil"

\* C8: when the source ends before the encoding of an HEVC or AVC record is
\* complete, RecordRead returns an error and the record it was given is as
\* it was before the call.
C8_TruncatedYieldsNoRecord ==
  (/\ kind \in {"hevc", "avc"} /\ pc = "read"
   /\ src = BTake(sink, BLen(src)) /\ BLen(src) < BLen(sink)
   /\ (kind = "hevc" => HEVCInRange(rec))
   /\ (kind = "avc" => AVCCountsFit(rec)))
    => (rerr # "nil" /\ dst = ZeroOf(kind))

\* C9: for an HEVC record with every field in range, RecordWrite emits the
\* top 4 bits of byte 13 as 1111 above the 12 bits of min-spatial-
\* segmentation, the top 6 bits of bytes 15 and 16 as 111111 above
\* parallelism type and chroma format, and the top 5 bits of bytes 17 and 18
\* as 11111 above the two bit depths, and RecordRead reads each of these
\* fields back as written.
C9_HEVCReservedBits ==
  (kind = "hevc" /\ Encoded /\ HEVCInRange(rec)) =>
     LET q == ToSeq(BTake(sink, 23))
     IN  /\ q[14] \div 16 = 15
         /\ (q[14] % 16) * 256 + q[15] = rec.MinSpatialSegmentationIndicator
         /\ q[16] \div 4 = 63 /\ q[16] % 4 = rec.ParallelismType
         /\ q[17] \div 4 = 63 /\ q[17] % 4 = rec.ChromaFormatIndicator
         /\ q[18] \div 8 = 31 /\ q[18] % 8 = rec.BitDepthLumaMinus8
         /\ q[19] \div 8 = 31 /\ q[19] % 8 = rec.BitDepthChromaMinus8
         /\ RoundTrip =>
              /\ dst.MinSpatialSegmentationIndicator
                   = rec.MinSpatialSegmentationIndicator
              /\ dst.ParallelismType = rec.ParallelismType
              /\ dst.ChromaFormatIndicator = rec.ChromaFormatIndicator
              /\ dst.BitDepthLumaMinus8 = rec.BitDepthLumaMinus8
              /\ dst.BitDepthChromaMinus8 = rec.BitDepthChromaMinus8

\* C10: the builder called with an empty SPS sequence returns the error
\* MissingParameterSet and no record, and does not fault.
C10_BuilderEmptySPS ==
  (args \in BuilderInputs /\ args.spsNalus = <<>> /\ pc # "args") =>
     (pc = "failed" /\ berr = "MissingParameterSet" /\ rec = ZeroHEVC)

\* the builder has run on a non-empty SPS sequence, and rec is what it
\* returned
Built ==
  args \in BuilderInputs /\ args.spsNalus # <<>> /\ pc # "args" /\ gen = 0

\* C11: the builder called with a non-empty SPS sequence consults the
\* parameter-set parser on the first SPS only.  When the parser accepts it,
\* the builder returns, without error, a record with version 1,
\* length-size-minus-one 3, min-spatial-segmentation, parallelism type,
\* average and constant frame rate, temporal-layer count and
\* temporal-id-nested 0, the profile, level, chroma and bit-depth fields of
\* the parser's result, and exactly the three arrays VPS, SPS, PPS holding
\* the caller's blob sequences and completeness flags; when the parser
\* rejects it, the builder returns the parser's error and an all-zero
\* record.  The SPS blobs after the first play no part.
C11_BuilderOutput ==
  Built =>
     LET sps == ParseSPSNALUnit(args.spsNalus[1])
     IN  IF sps.err # "nil"
         THEN pc = "failed" /\ berr = sps.err /\ rec = ZeroHEVC
         ELSE /\ pc \notin {"failed", "panic"}
              /\ berr = "nil"
              /\ rec.ConfigurationVersion = 1
              /\ rec.LengthSizeMinusOne = 3
              /\ rec.MinSpatialSegmentationIndicator = 0
              /\ rec.ParallelismType = 0
              /\ rec.AvgFrameRate = 0
              /\ rec.ConstantFrameRate = 0
              /\ rec.NumTemporalLayers = 0
              /\ rec.TemporalIDNested = 0
              /\ rec.GeneralProfileSpace = sps.GeneralProfileSpace
              /\ rec.GeneralTierFlag = sps.GeneralTierFlag
              /\ rec.GenertalProfileIndicator = sps.GeneralProfileIndicator
              /\ rec.GeneralProfileCompatibilityFlags
                   = sps.GeneralProfileCompatibilityFlags
              /\ rec.GeneralConstraintIndicatorFlags
                   = sps.GeneralConstraintIndicatorFlags
              /\ rec.GeneralLevelIndicator = sps.GeneralLevelIndicator
              /\ rec.ChromaFormatIndicator = sps.ChromaFormatIndicator
              /\ rec.BitDepthLumaMinus8 = sps.BitDepthLumaMinus8
              /\ rec.BitDepthChromaMinus8 = sps.BitDepthChromaMinus8
              /\ Len(rec.NaluArrays) = 3
              /\ rec.NaluArrays[1] = [ArrayCompleteness |-> args.vpsComplete,
                                      NALUnitType |-> 32,
                                      NALUs |-> args.vpsNalus]
              /\ rec.NaluArrays[2] = [ArrayCompleteness |-> args.spsComplete,
                                      NALUnitType |-> 33,
                                      NALUs |-> args.spsNalus]
              /\ rec.NaluArrays[3] = [ArrayCompleteness |-> args.ppsComplete,
                                      NALUnitType |-> 34,
                                      NALUs |-> args.ppsNalus]

\* a record built from two SPS blobs, the second one not a parsable SPS
C11_Witness ==
  /\ Built /\ pc = "rec" /\ berr = "nil"
  /\ Len(args.spsNalus) = 2
  /\ ParseSPSNALUnit(args.spsNalus[1]).err = "nil"
  /\ ParseSPSNALUnit(args.spsNalus[2]).err # "nil"
  /\ rec.GeneralTierFlag /\ rec.GeneralLevelIndicator = 93
  /\ ~args.vpsComplete /\ args.spsComplete
  /\ rec.NaluArrays[2].NALUs = args.spsNalus

\* C12: a record that RecordRead produced from any bytes it accepts encodes
\* to bytes e1 that RecordRead accepts in turn, and the record decoded from
\* e1 encodes to e1 again, byte for byte.
C12_HEVCReencodeStable ==
  kind = "hevc" =>
     /\ (gen >= 1 /\ RoundTrip) => rerr = "nil"
     /\ (gen >= 2 /\ Encoded /\ wire = prev) => sink = prev

\* a record decoded from bytes with the tier bit set and reserved bits that
\* are not all ones, encoded, decoded and encoded once more
C12_Witness ==
  /\ kind = "hevc" /\ gen >= 2 /\ Encoded /\ wire = prev /\ sink = prev
  /\ ~rec.GeneralTierFlag
  /\ rec.GenertalProfileIndicator = 17
  /\ rec.ParallelismType = 3
  /\ Len(rec.NaluArrays) > 0

\* C13: for profile space 0..3 and profile indicator 0..31, RecordWrite
\* emits byte 1 as profile space * 64 + 32 when the tier flag is set + the
\* profile indicator, and RecordRead of the encoding gives the three fields
\* back: a set tier flag does not touch the profile-indicator bits.
C13_HEVCProfileByte ==
  (/\ kind = "hevc" /\ Encoded
   /\ rec.GeneralProfileSpace \in 0..3
   /\ rec.GenertalProfileIndicator \in 0..31) =>
     /\ ToSeq(BTake(sink, 2))[2]
          = rec.GeneralProfileSpace * 64
              + (IF rec.GeneralTierFlag THEN 32 ELSE 0)
              + rec.GenertalProfileIndicator
     /\ RoundTrip =>
          /\ dst.GeneralProfileSpace = rec.GeneralProfileSpace
          /\ dst.GeneralTierFlag = rec.GeneralTierFlag
          /\ dst.GenertalProfileIndicator = rec.GenertalProfileIndicator

\* the bytes of the first n write calls
CallBytes(calls, n) == BLen(Flatten(SubSeq(calls, 1, n)))

\* C14: when the k-th write of an HEVC or AVC RecordWrite returns an error,
\* RecordWrite returns that error having made exactly k write calls (none
\* after the failing one, none twice), and what the sink accepted is a
\* prefix of the record's encoding: the first k - 1 writes and no more
\* than the k-th.
C14_StopsAtSinkFailure ==
  (kind \in {"hevc", "avc"} /\ pc = "written") =>
     \A calls \in {RecordWriteOf(kind, rec)} :
        IF failat \in 1..Len(calls)
        THEN /\ werr = "ErrSink"
             /\ wcalls = failat
             /\ sink = BTake(Flatten(calls), BLen(sink))
             /\ BLen(sink) >= CallBytes(calls, failat - 1)
             /\ BLen(sink) <= CallBytes(calls, failat)
        ELSE werr = "nil" /\ wcalls = Len(calls)

\* the last write of an HEVC record, a NAL unit, fails one byte short
C14_Witness ==
  /\ kind = "hevc" /\ pc = "written" /\ werr = "ErrSink"
  /\ failat > 14 /\ wcalls = failat
  /\ BLen(sink) = size - 1
  /\ \A calls \in {RecordWriteOf(kind, rec)} :
        /\ failat = Len(calls)
        /\ BLen(sink) > CallBytes(calls, failat - 1)

\* RecordRead has returned without error
Decoded == pc \in {"read", "reread"} /\ rerr = "nil"

\* C15: whenever RecordRead of any of the three kinds succeeds, the number
\* of bytes it took from the source is RecordSize of the record it
\* produced; the bytes behind them stay in the source.
C15_ConsumesExactlyRecord ==
  Decoded =>
     /\ nread = RecordSizeOf(kind, dst)
     /\ nread <= BLen(src)

\* an AVC record of profile 66 decoded from a source that goes on with
\* bytes shaped like an extension section
C15_Witness ==
  /\ kind = "avc" /\ Decoded
  /\ dst.AVCProfileIndication = 66
  /\ BLen(src) = BLen(sink) + 7
  /\ nread = BLen(sink)
  /\ dst.SequenceParameterSetExts = <<>>
  /\ Len(dst.PictureParameterSets) > 1

\* C16: after RecordRead has succeeded on a record that earlier calls had
\* filled, the record is what RecordRead makes of a fresh record from the
\* same bytes: for AVC, bytes of profile 66 leave chroma format and both bit
\* depths 0 and no SPS-extension, whatever the record held before.
C16_IndependentOfPrevious ==
  (pc = "reread" /\ rerr = "nil") =>
     \A fresh \in {RecordReadOf(kind, ZeroOf(kind), src)} : dst = fresh.b

====
